---- MODULE Spec2Model ----
(***************************************************************************)
(* A model of the MERN authentication starter: the browser-side session    *)
(* cache (localStorage keys auth.token / auth.user), its readers and       *)
(* writers (Navbar, Login modal, Register modal, AuthContext), the modal   *)
(* wiring of App, and the HTTP requests the forms send.                    *)
(*                                                                         *)
(* Every client-side variable is indexed by browser tab; localStorage is   *)
(* shared by the tabs of the origin.                                       *)
(***************************************************************************)
EXTENDS Integers, Sequences, FiniteSets, TLC

(***************************************************************************)
(* Bounds of the model.                                                    *)
(***************************************************************************)
\* requests one tab may have in flight at a time
MaxInFlight == 2
\* pending setTimeout callbacks of one kind in one tab
MaxTimers == 1
\* native "storage" events queued for one tab
MaxStorageEvts == 2
\* the days the servers' clock may advance
MaxClock == 8

Tabs == {1, 2}

(***************************************************************************)
(* JavaScript values.  An optional value (null or a value) is a sequence   *)
(* of length at most one.                                                  *)
(***************************************************************************)
None == <<>>
Some(v) == <<v>>

\* the null and undefined primitives, where they share a slot with a string
NULL == "null"
UNDEFINED == "undefined"
Truthy(s) == s \notin {NULL, UNDEFINED, ""}

\* the texts a visitor types, as characters
Chars(s) ==
  CASE s = "" -> <<>>
    [] s = "a@b" -> <<"a", "@", "b">>
    [] s = "a@x.com" -> <<"a", "@", "x", ".", "c", "o", "m">>
    [] s = "b@x.com" -> <<"b", "@", "x", ".", "c", "o", "m">>
    [] s = "abc12" -> <<"a", "b", "c", "1", "2">>
    [] s = "secret1" -> <<"s", "e", "c", "r", "e", "t", "1">>
    [] s = "secret2" -> <<"s", "e", "c", "r", "e", "t", "2">>
    [] s = "Ann" -> <<"A", "n", "n">>
    [] s = "Bob" -> <<"B", "o", "b">>
    [] OTHER -> <<"?">>

NonSpace(c) == c \notin {" ", "\t", "\n"}

\* /\S+@\S+\.\S+/.test(s)
EmailRe(s) ==
  LET cs == Chars(s) IN
  \E i \in 1..Len(cs) : \E j \in 1..Len(cs) :
    /\ cs[i] = "@" /\ cs[j] = "."
    /\ i > 1 /\ NonSpace(cs[i - 1])
    /\ j > i + 1 /\ \A k \in (i + 1)..(j - 1) : NonSpace(cs[k])
    /\ j < Len(cs) /\ NonSpace(cs[j + 1])

Emails == {"a@x.com", "b@x.com"}

\* what the server answers for the account of an email
NameOf(e) == IF e = "a@x.com" THEN "Ann" ELSE "Bob"
IdOf(e) == IF e = "a@x.com" THEN "id-a" ELSE "id-b"
TokenOf(e) == IF e = "a@x.com" THEN "jwt-a" ELSE "jwt-b"
Profile(e) == [id |-> IdOf(e), name |-> NameOf(e), email |-> e]
\* the object literal { email }
EmailOnly(e) == [email |-> e]

(***************************************************************************)
(* Texts: localStorage values and HTTP bodies.  A text is the JSON text of *)
(* a value (JSON.stringify) or a plain text that is not JSON; JSON.parse   *)
(* gives the value back, or throws on a text that is not JSON.             *)
(***************************************************************************)
JSONstringify(o) == [plain |-> "", of |-> Some(o)]
PlainText(s) == [plain |-> s, of |-> None]
EmptyText == PlainText("")
ParseThrows(text) == text.of = None
JSONparse(text) == text.of[1]
\* the text as a string, for display
Raw(text) == IF text.of = None THEN text.plain ELSE "<json>"
\* o.f is truthy, for a string property that may be missing or empty
Has(o, f) == f \in DOMAIN o /\ o[f] \notin {NULL, UNDEFINED, ""}
\* o.f is truthy, for an object property that may be missing
HasObj(o, f) == f \in DOMAIN o
\* o.f, for a string property that may be missing
Get(o, f) == IF f \in DOMAIN o THEN o[f] ELSE UNDEFINED

(***************************************************************************)
(* localStorage: the two keys of the session cache, each absent or a text. *)
(***************************************************************************)
EmptyStorage == [token |-> None, user |-> None]
SetItem(st, key, v) == [st EXCEPT ![key] = Some(v)]
RemoveItem(st, key) == [st EXCEPT ![key] = None]
\* the keys whose value differs: one native "storage" event each
KeysChanged(st1, st2) == Cardinality({k \in {"token", "user"} : st1[k] # st2[k]})

\* const raw = localStorage.getItem("auth.user");
\* try { raw ? JSON.parse(raw) : null } catch { null }
ReadUserTrustsText(st) ==
  IF st.user = None THEN None
  ELSE IF ParseThrows(st.user[1]) THEN Some([email |-> st.user[1].plain])
  ELSE Some(JSONparse(st.user[1]))
ReadUser(st) ==
  IF st.user = None THEN None
  ELSE IF ParseThrows(st.user[1]) THEN None
  ELSE Some(JSONparse(st.user[1]))

\* localStorage.getItem("auth.token") || null
ReadToken(st) == IF st.token = None THEN NULL ELSE st.token[1]

(***************************************************************************)
(* HTTP.  A response is a status and a body text; status 0 stands for a    *)
(* rejected fetch (server unreachable).                                    *)
(***************************************************************************)
Response(status, body) == [status |-> status, body |-> body]
NetworkError == Response(0, EmptyText)
Rejected(res) == res.status = 0
\* res.ok
Ok(res) == res.status \in 200..299

LoginHost == "http://localhost:5000"
RegisterHost == "https://mern-auth-login-register.onrender.com"
\* AuthContext posts to a path relative to the page's origin
PageOrigin == "origin"

\* a request in flight; live: the component that sent it is still mounted
Request(id, t, from, host, path, body) ==
  [id |-> id, tab |-> t, from |-> from, host |-> host, path |-> path,
   body |-> body, live |-> TRUE]

VARIABLES
  server,       \* the API servers: their databases and the requests they work on
  openTabs,     \* the tabs that show the page
  storage,      \* localStorage of the origin
  storageEvts,  \* per tab: native "storage" events not yet delivered
  nav,          \* per tab: Navbar's user state
  ctx,          \* per tab: AuthProvider's token, user, loading
  app,          \* per tab: App's isLoginOpen, isRegisterOpen
  loginForm,    \* per tab: the mounted Login modal's loading, values, error
  regForm,      \* per tab: the mounted Register modal's state
  timers,       \* per tab: pending setTimeout callbacks, by kind
  net,          \* the requests in flight
  last          \* what the last step did (history)

vars == <<server, openTabs, storage, storageEvts, nav, ctx, app, loginForm,
          regForm, timers, net, last>>

TimerKinds == {"Login.close", "Login.closeThenRegister", "App.openRegister",
               "Register.close", "Register.closeThenLogin", "App.openLogin",
               "Register.success"}

\* useState initial values of the Login modal (login.jsx 16-18)
InitLoginForm ==
  [loading |-> FALSE,
   values |-> [email |-> "", password |-> "", remember |-> FALSE],
   error |-> ""]

\* useState initial values of the Register modal (Register.jsx 15-18)
InitRegForm ==
  [loading |-> FALSE,
   values |-> [name |-> "", email |-> "", password |-> "", confirm |-> ""],
   error |-> "", success |-> ""]

\* useState initial values of AuthProvider (AuthContext.jsx 21-30)
InitCtx(st) == [token |-> ReadToken(st), user |-> ReadUser(st), loading |-> FALSE]

\* useState initial values of App (App.jsx 9-10)
InitApp == [isLoginOpen |-> FALSE, isRegisterOpen |-> FALSE]

\* the record of a step: the handler that ran, its tab, whether it dispatched
\* "authChange" and the storage its listeners saw, the request it sent or,
\* for a response, the request and the response, and what it returned to
\* its caller
Step(op, t) ==
  [op |-> op, tab |-> t, authChange |-> FALSE, seen |-> EmptyStorage,
   req |-> None, res |-> None, returned |-> ""]

(***************************************************************************)
(* Shared steps.                                                           *)
(***************************************************************************)
\* a write of localStorage by tab t: every other open tab gets one native
\* "storage" event per key whose value changed
CanWrite(t, st2) ==
  \A u \in openTabs \ {t} : storageEvts[u] + KeysChanged(storage, st2) <= MaxStorageEvts
Write(t, st2) ==
  /\ CanWrite(t, st2)
  /\ storage' = st2
  /\ storageEvts' = [u \in Tabs |->
       IF u \in openTabs \ {t} THEN storageEvts[u] + KeysChanged(storage, st2)
       ELSE storageEvts[u]]

InFlight(t) == {r \in net : r.tab = t}
FreeId == CHOOSE i \in 1..(Cardinality(net) + 1) : \A r \in net : r.id # i
CanSend(t) == Cardinality(InFlight(t)) < MaxInFlight

\* a component that unmounts: the setState calls of its pending handlers
\* will do nothing
UnmountAborts(n, t, from) == {r \in n : ~(r.tab = t /\ r.from = from)}
Unmount(n, t, from) ==
  {IF r.tab = t /\ r.from = from THEN [r EXCEPT !.live = FALSE] ELSE r : r \in n}

CanSetTimeout(t, kind) == timers[t][kind] < MaxTimers
SetTimeout(tm, t, kind) == [tm EXCEPT ![t][kind] = @ + 1]
ClearedTimeout(tm, t, kind) == [tm EXCEPT ![t][kind] = @ - 1]

(***************************************************************************)
(* Navbar (components/Navbar.jsx).                                         *)
(***************************************************************************)
\* the listener of "storage" and "authChange": what it sets user to
OnAuthChange(st) == ReadUser(st)

\* what the Navbar renders: the user view, or Sign in / Get started
ShowsUser(t) == nav[t] # None

\* window.dispatchEvent(new Event("authChange")): the listeners of the tab
\* run at once, on the storage as it is
DispatchUnheard(t, st) == nav' = nav
DispatchBeforeWrites(t, st) == nav' = [nav EXCEPT ![t] = OnAuthChange(storage)]
DispatchAuthChange(t, st) == nav' = [nav EXCEPT ![t] = OnAuthChange(st)]

\* a native "storage" event reaches tab t
StorageEvent(t) ==
  /\ t \in openTabs
  /\ storageEvts[t] > 0
  /\ storageEvts' = [storageEvts EXCEPT ![t] = @ - 1]
  /\ nav' = [nav EXCEPT ![t] = OnAuthChange(storage)]
  /\ last' = Step("Navbar.onStorage", t)
  /\ UNCHANGED <<server, openTabs, storage, ctx, app, loginForm, regForm, timers, net>>

\* the storage handleLogout leaves
LogoutTokenOnly(st) == RemoveItem(st, "token")
LogoutStorage(st) == RemoveItem(RemoveItem(st, "token"), "user")

\* the Logout button, rendered when user is set
NavLogout(t) ==
  /\ t \in openTabs
  /\ ShowsUser(t)
  /\ LET st2 == LogoutStorage(storage) IN
       /\ Write(t, st2)
       \* the listener runs inside dispatchEvent, then setUser(null)
       /\ nav' = [nav EXCEPT ![t] = None]
       /\ last' = [Step("Navbar.handleLogout", t) EXCEPT
                     !.authChange = TRUE, !.seen = st2]
  /\ UNCHANGED <<server, openTabs, ctx, app, loginForm, regForm, timers, net>>

(***************************************************************************)
(* App (App.jsx): the modal wiring.                                        *)
(***************************************************************************)
\* setIsLoginOpen(true): the hero's or the Navbar's Sign in button
OpenLogin(t) ==
  /\ t \in openTabs
  /\ ~app[t].isLoginOpen
  /\ app' = [app EXCEPT ![t].isLoginOpen = TRUE]
  /\ loginForm' = [loginForm EXCEPT ![t] = InitLoginForm]
  /\ last' = Step("App.openLogin", t)
  /\ UNCHANGED <<server, openTabs, storage, storageEvts, nav, ctx, regForm, timers, net>>

\* onClose of the Login modal: setIsLoginOpen(false) unmounts it
CloseLogin(t) ==
  /\ app' = [app EXCEPT ![t].isLoginOpen = FALSE]
  /\ loginForm' = [loginForm EXCEPT ![t] = InitLoginForm]

(***************************************************************************)
(* Login modal (pages/login.jsx).                                          *)
(***************************************************************************)
\* validate()
LoginValidate(values) ==
  IF values.email = "" \/ values.password = ""
    THEN "Please enter both email and password."
  ELSE IF ~EmailRe(values.email) THEN "Please enter a valid email address."
  ELSE ""

\* onChange of an input
LoginChange(t, name, value) ==
  /\ t \in openTabs
  /\ app[t].isLoginOpen
  /\ loginForm[t].values[name] # value
  /\ loginForm' = [loginForm EXCEPT ![t].error = "", ![t].values[name] = value]
  /\ last' = Step("Login.onChange", t)
  /\ UNCHANGED <<server, openTabs, storage, storageEvts, nav, ctx, app, regForm, timers, net>>

\* the submit button is disabled while loading
LoginCanSubmit(t) == app[t].isLoginOpen /\ ~loginForm[t].loading

\* handleSubmit, up to the await of fetch
LoginSubmit(t) ==
  /\ t \in openTabs
  /\ LoginCanSubmit(t)
  /\ LET values == loginForm[t].values
         vErr == LoginValidate(values)
         req == Request(FreeId, t, "Login", LoginHost, "/api/auth/login",
                        [email |-> values.email, password |-> values.password])
     IN IF vErr # ""
          THEN /\ loginForm' = [loginForm EXCEPT ![t].error = vErr]
               /\ last' = Step("Login.handleSubmit", t)
               /\ UNCHANGED net
          ELSE /\ CanSend(t)
               /\ loginForm' = [loginForm EXCEPT ![t].error = "", ![t].loading = TRUE]
               /\ net' = net \cup {req}
               /\ last' = [Step("Login.handleSubmit", t) EXCEPT !.req = Some(req)]
  /\ UNCHANGED <<server, openTabs, storage, storageEvts, nav, ctx, app, regForm, timers>>

\* safeFetchJson(res).parsed
Parsed(res) == IF ParseThrows(res.body) THEN None ELSE Some(JSONparse(res.body))

\* the message handleSubmit throws for a response, "" when it throws nothing
LoginErrorIgnoresStatus(res) ==
  LET parsed == Parsed(res)
      raw == Raw(res.body)
  IN IF Rejected(res) THEN "Failed to fetch"
     ELSE IF parsed = None
       THEN "Server returned non-JSON success response: "
              \o (IF raw # "" THEN raw ELSE "<empty body>")
     ELSE IF ~Has(parsed[1], "token")
       THEN IF Has(parsed[1], "message") THEN parsed[1].message
            ELSE "No token returned from server"
     ELSE ""
LoginError(res) ==
  LET parsed == Parsed(res)
      raw == Raw(res.body)
      serverMessage == IF parsed # None /\ Has(parsed[1], "message")
                         THEN parsed[1].message
                         ELSE IF raw # "" THEN raw ELSE NULL
  IN IF Rejected(res) THEN "Failed to fetch"
     ELSE IF ~Ok(res)
       THEN IF Truthy(serverMessage) THEN serverMessage
            ELSE "Login failed (" \o ToString(res.status) \o ")"
     ELSE IF parsed = None
       THEN "Server returned non-JSON success response: "
              \o (IF raw # "" THEN raw ELSE "<empty body>")
     ELSE IF ~Has(parsed[1], "token")
       THEN IF Has(parsed[1], "message") THEN parsed[1].message
            ELSE "No token returned from server"
     ELSE ""

\* the storage handleSubmit leaves after a response with a token
LoginStorageNoFallback(st, email, parsed) ==
  LET st1 == SetItem(st, "token", parsed.token) IN
  IF HasObj(parsed, "user")
    THEN SetItem(st1, "user", JSONstringify(parsed.user))
    ELSE st1
LoginStorageIfRemembered(st, email, parsed) ==
  IF \E t \in openTabs : loginForm[t].values.remember
    THEN LoginStorageNoFallback(st, email, parsed)
    ELSE st
LoginStorage(st, email, parsed) ==
  LET st1 == SetItem(st, "token", parsed.token) IN
  IF HasObj(parsed, "user")
    THEN SetItem(st1, "user", JSONstringify(parsed.user))
    ELSE SetItem(st1, "user", JSONstringify(EmailOnly(email)))

\* handleSubmit, from the await of fetch on: the response of request r
LoginResponse(r, res) ==
  /\ r \in net /\ r.from = "Login"
  /\ r.tab \in openTabs
  /\ LET t == r.tab
         err == LoginError(res)
     IN IF err = ""
          THEN LET st2 == LoginStorage(storage, r.body.email, JSONparse(res.body)) IN
               /\ Write(t, st2)
               /\ DispatchAuthChange(t, st2)
               /\ CanSetTimeout(t, "Login.close")
               /\ timers' = SetTimeout(timers, t, "Login.close")
               /\ loginForm' = IF r.live THEN [loginForm EXCEPT ![t].loading = FALSE]
                               ELSE loginForm
               /\ last' = [Step("Login.handleResponse", t) EXCEPT
                             !.authChange = TRUE, !.seen = st2,
                             !.req = Some(r), !.res = Some(res)]
          ELSE /\ loginForm' = IF r.live
                                 THEN [loginForm EXCEPT ![t].loading = FALSE,
                                                        ![t].error = err]
                               ELSE loginForm
               /\ last' = [Step("Login.handleResponse", t) EXCEPT
                             !.req = Some(r), !.res = Some(res)]
               /\ UNCHANGED <<storage, storageEvts, nav, timers>>
  /\ net' = net \ {r}
  /\ UNCHANGED <<openTabs, ctx, app, regForm>>

\* Escape: onClose() at once
LoginEscape(t) ==
  /\ t \in openTabs
  /\ app[t].isLoginOpen
  /\ CloseLogin(t)
  /\ net' = Unmount(net, t, "Login")
  /\ last' = Step("Login.escape", t)
  /\ UNCHANGED <<server, openTabs, storage, storageEvts, nav, ctx, regForm, timers>>

\* Cancel, the close button, the backdrop: setTimeout(onClose, ...)
LoginDismiss(t) ==
  /\ t \in openTabs
  /\ app[t].isLoginOpen
  /\ CanSetTimeout(t, "Login.close")
  /\ timers' = SetTimeout(timers, t, "Login.close")
  /\ last' = Step("Login.dismiss", t)
  /\ UNCHANGED <<server, openTabs, storage, storageEvts, nav, ctx, app, loginForm, regForm, net>>

\* a pending setTimeout(onClose) of the Login modal fires
LoginCloseTimer(t) ==
  /\ t \in openTabs
  /\ timers[t]["Login.close"] > 0
  /\ timers' = ClearedTimeout(timers, t, "Login.close")
  /\ CloseLogin(t)
  /\ net' = Unmount(net, t, "Login")
  /\ last' = Step("Login.closeTimer", t)
  /\ UNCHANGED <<server, openTabs, storage, storageEvts, nav, ctx, regForm>>

(***************************************************************************)
(* AuthContext (context/AuthContext.jsx).                                  *)
(***************************************************************************)
\* the two useEffect of AuthProvider, run after a render in which token
\* (compared by value) or user (compared by reference) changed
CtxTokenEffect(st, token) ==
  IF Truthy(token) THEN SetItem(st, "token", token) ELSE RemoveItem(st, "token")
CtxUserEffect(st, user) ==
  IF user # None THEN SetItem(st, "user", JSONstringify(user[1]))
  ELSE RemoveItem(st, "user")
CtxEffects(st, old, new, userChanged) ==
  LET st1 == IF new.token # old.token THEN CtxTokenEffect(st, new.token) ELSE st
  IN IF userChanged THEN CtxUserEffect(st1, new.user) ELSE st1

\* isAuthenticated: !!token
IsAuthenticated(t) == Truthy(ctx[t].token)

\* login({email, password, remember}), up to the await of fetch
CtxLogin(t, email, password) ==
  /\ t \in openTabs
  /\ CanSend(t)
  /\ LET req == Request(FreeId, t, "AuthContext.login", PageOrigin, "/api/auth/login",
                        [email |-> email, password |-> password])
     IN /\ net' = net \cup {req}
        /\ last' = [Step("AuthContext.login", t) EXCEPT !.req = Some(req)]
  /\ ctx' = [ctx EXCEPT ![t].loading = TRUE]
  /\ UNCHANGED <<server, openTabs, storage, storageEvts, nav, app, loginForm, regForm, timers>>

\* whether login or register throws on a response: fetch rejected, res.json()
\* threw, or the status is not ok
CtxThrows(res) == Rejected(res) \/ ParseThrows(res.body) \/ ~Ok(res)

\* the state login sets from the data of an ok response
CtxLoginState(old, email, data) ==
  [token |-> Get(data, "token"),
   user |-> IF HasObj(data, "user") THEN Some(data.user) ELSE Some(EmailOnly(email)),
   loading |-> FALSE]

\* login, from the await of fetch on
CtxLoginResponse(r, res) ==
  /\ r \in net /\ r.from = "AuthContext.login"
  /\ r.tab \in openTabs
  /\ LET t == r.tab
     IN IF CtxThrows(res)
          THEN /\ ctx' = [ctx EXCEPT ![t].loading = FALSE]
               /\ last' = [Step("AuthContext.loginResponse", t) EXCEPT
                             !.req = Some(r), !.res = Some(res),
                             !.returned = "ok:false"]
               /\ UNCHANGED <<storage, storageEvts>>
          ELSE LET new == CtxLoginState(ctx[t], r.body.email, JSONparse(res.body))
                   st2 == CtxEffects(storage, ctx[t], new, TRUE)
               IN /\ ctx' = [ctx EXCEPT ![t] = new]
                  /\ Write(t, st2)
                  /\ last' = [Step("AuthContext.loginResponse", t) EXCEPT
                                !.req = Some(r), !.res = Some(res),
                                !.returned = "ok:true"]
  /\ net' = net \ {r}
  /\ UNCHANGED <<openTabs, nav, app, loginForm, regForm, timers>>

\* register(payload), up to the await of fetch
CtxRegister(t, payload) ==
  /\ t \in openTabs
  /\ CanSend(t)
  /\ LET req == Request(FreeId, t, "AuthContext.register", PageOrigin,
                        "/api/auth/register", payload)
     IN /\ net' = net \cup {req}
        /\ last' = [Step("AuthContext.register", t) EXCEPT !.req = Some(req)]
  /\ ctx' = [ctx EXCEPT ![t].loading = TRUE]
  /\ UNCHANGED <<server, openTabs, storage, storageEvts, nav, app, loginForm, regForm, timers>>

\* register, from the await of fetch on
CtxRegisterResponseNoReset(r, res) ==
  /\ r \in net /\ r.from = "AuthContext.register"
  /\ r.tab \in openTabs
  /\ ctx' = ctx
  /\ last' = [Step("AuthContext.registerResponse", r.tab) EXCEPT
                !.req = Some(r), !.res = Some(res),
                !.returned = IF CtxThrows(res) THEN "ok:false" ELSE "ok:true"]
  /\ net' = net \ {r}
  /\ UNCHANGED <<openTabs, storage, storageEvts, nav, app, loginForm, regForm, timers>>
CtxRegisterResponse(r, res) ==
  /\ r \in net /\ r.from = "AuthContext.register"
  /\ r.tab \in openTabs
  /\ ctx' = [ctx EXCEPT ![r.tab].loading = FALSE]
  /\ last' = [Step("AuthContext.registerResponse", r.tab) EXCEPT
                !.req = Some(r), !.res = Some(res),
                !.returned = IF CtxThrows(res) THEN "ok:false" ELSE "ok:true"]
  /\ net' = net \ {r}
  /\ UNCHANGED <<openTabs, storage, storageEvts, nav, app, loginForm, regForm, timers>>

\* the state logout sets
CtxLogoutState(old) == [old EXCEPT !.token = NULL, !.user = None]

\* logout(): the two setState, the two removeItem, then the effects
CtxLogout(t) ==
  /\ t \in openTabs
  /\ LET new == CtxLogoutState(ctx[t])
         st1 == RemoveItem(RemoveItem(storage, "token"), "user")
         st2 == CtxEffects(st1, ctx[t], new, ctx[t].user # None)
     IN /\ ctx' = [ctx EXCEPT ![t] = new]
        /\ Write(t, st2)
  /\ last' = Step("AuthContext.logout", t)
  /\ UNCHANGED <<server, openTabs, nav, app, loginForm, regForm, timers, net>>

(***************************************************************************)
(* Register modal (pages/Register.jsx).                                    *)
(***************************************************************************)
\* setIsRegisterOpen(true): the hero's or the Navbar's button
OpenRegister(t) ==
  /\ t \in openTabs
  /\ ~app[t].isRegisterOpen
  /\ app' = [app EXCEPT ![t].isRegisterOpen = TRUE]
  /\ regForm' = [regForm EXCEPT ![t] = InitRegForm]
  /\ last' = Step("App.openRegister", t)
  /\ UNCHANGED <<server, openTabs, storage, storageEvts, nav, ctx, loginForm, timers, net>>

\* onClose of the Register modal: setIsRegisterOpen(false) unmounts it
CloseRegister(t) ==
  /\ app' = [app EXCEPT ![t].isRegisterOpen = FALSE]
  /\ regForm' = [regForm EXCEPT ![t] = InitRegForm]

\* validate() of the Register of pages/Home.jsx, which App does not mount
HomeValidate(values) ==
  IF values.name = "" \/ values.email = "" \/ values.password = "" \/ values.confirm = ""
    THEN "Please fill all fields."
  ELSE IF ~EmailRe(values.email) THEN "Please enter a valid email."
  ELSE IF Len(values.password) < 6 THEN "Password must be at least 6 characters."
  ELSE IF values.password # values.confirm THEN "Passwords do not match."
  ELSE ""

RegValidateRequiredOnly(values) ==
  IF values.name = "" \/ values.email = "" \/ values.password = "" \/ values.confirm = ""
    THEN "All fields are required!"
  ELSE ""

\* validate()
RegValidate(values) ==
  IF values.name = "" \/ values.email = "" \/ values.password = "" \/ values.confirm = ""
    THEN "All fields are required!"
  ELSE IF Len(values.password) < 6 THEN "Password must be at least 6 characters."
  ELSE IF values.password # values.confirm THEN "Passwords do not match."
  ELSE IF ~EmailRe(values.email) THEN "Please enter a valid email address."
  ELSE ""

\* handleChange of an input
RegChange(t, name, value) ==
  /\ t \in openTabs
  /\ app[t].isRegisterOpen
  /\ regForm[t].values[name] # value
  /\ regForm' = [regForm EXCEPT ![t].values[name] = value,
                                ![t].error = "", ![t].success = ""]
  /\ last' = Step("Register.handleChange", t)
  /\ UNCHANGED <<server, openTabs, storage, storageEvts, nav, ctx, app, loginForm, timers, net>>

\* the submit button is disabled while loading
RegCanSubmit(t) == app[t].isRegisterOpen /\ ~regForm[t].loading

\* handleSubmit, up to the await of fetch
RegSubmit(t) ==
  /\ t \in openTabs
  /\ RegCanSubmit(t)
  /\ LET values == regForm[t].values
         validationError == RegValidate(values)
         req == Request(FreeId, t, "Register", RegisterHost, "/api/auth/register",
                        [name |-> values.name, email |-> values.email,
                         password |-> values.password])
     IN IF validationError # ""
          THEN /\ regForm' = [regForm EXCEPT ![t].error = validationError]
               /\ last' = Step("Register.handleSubmit", t)
               /\ UNCHANGED net
          ELSE /\ CanSend(t)
               /\ regForm' = [regForm EXCEPT ![t].loading = TRUE, ![t].error = ""]
               /\ net' = net \cup {req}
               /\ last' = [Step("Register.handleSubmit", t) EXCEPT !.req = Some(req)]
  /\ UNCHANGED <<server, openTabs, storage, storageEvts, nav, ctx, app, loginForm, timers>>

\* the message handleSubmit throws for a response, "" when it throws nothing
RegError(res) ==
  LET data == IF res.body = EmptyText THEN [none |-> ""]
              ELSE IF ParseThrows(res.body) THEN [message |-> Raw(res.body)]
              ELSE JSONparse(res.body)
  IN IF Rejected(res) THEN "Failed to fetch"
     ELSE IF ~Ok(res)
       THEN IF Has(data, "message") THEN data.message ELSE "Registration failed"
     ELSE ""

\* the storage handleSubmit leaves after a response: it writes nothing
RegStorageAutoLogin(st, res) ==
  IF Ok(res) /\ ~ParseThrows(res.body) /\ Has(JSONparse(res.body), "token")
    THEN SetItem(st, "token", JSONparse(res.body).token)
    ELSE st
RegStorage(st, res) == st

RegSuccessText == "Account created successfully! Redirecting to sign in..."

\* handleSubmit, from the await of fetch on: the response of request r
RegResponse(r, res) ==
  /\ r \in net /\ r.from = "Register"
  /\ r.tab \in openTabs
  /\ LET t == r.tab
         err == RegError(res)
     IN IF err = ""
          THEN /\ CanSetTimeout(t, "Register.success")
               /\ timers' = SetTimeout(timers, t, "Register.success")
               /\ regForm' = IF r.live
                               THEN [regForm EXCEPT ![t] =
                                       [InitRegForm EXCEPT !.success = RegSuccessText]]
                             ELSE regForm
          ELSE /\ regForm' = IF r.live
                               THEN [regForm EXCEPT ![t].error = err, ![t].loading = FALSE]
                             ELSE regForm
               /\ UNCHANGED timers
  /\ Write(r.tab, RegStorage(storage, res))
  /\ last' = [Step("Register.handleResponse", r.tab) EXCEPT
                !.req = Some(r), !.res = Some(res)]
  /\ net' = net \ {r}
  /\ UNCHANGED <<openTabs, nav, ctx, app, loginForm>>

\* the backdrop: setTimeout(onClose, 160)
RegDismiss(t) ==
  /\ t \in openTabs
  /\ app[t].isRegisterOpen
  /\ CanSetTimeout(t, "Register.close")
  /\ timers' = SetTimeout(timers, t, "Register.close")
  /\ last' = Step("Register.dismiss", t)
  /\ UNCHANGED <<server, openTabs, storage, storageEvts, nav, ctx, app, loginForm, regForm, net>>

\* the Sign in link: setTimeout(() => { onClose(); onOpenLogin() }, 160)
RegToLogin(t) ==
  /\ t \in openTabs
  /\ app[t].isRegisterOpen
  /\ CanSetTimeout(t, "Register.closeThenLogin")
  /\ timers' = SetTimeout(timers, t, "Register.closeThenLogin")
  /\ last' = Step("Register.toLogin", t)
  /\ UNCHANGED <<server, openTabs, storage, storageEvts, nav, ctx, app, loginForm, regForm, net>>

\* Create an account in the Login modal:
\* setTimeout(() => { onClose(); onOpenRegister() }, 160)
LoginToRegister(t) ==
  /\ t \in openTabs
  /\ app[t].isLoginOpen
  /\ CanSetTimeout(t, "Login.closeThenRegister")
  /\ timers' = SetTimeout(timers, t, "Login.closeThenRegister")
  /\ last' = Step("Login.toRegister", t)
  /\ UNCHANGED <<server, openTabs, storage, storageEvts, nav, ctx, app, loginForm, regForm, net>>

(***************************************************************************)
(* The pending timers of the modals and of App.                            *)
(***************************************************************************)
\* setTimeout(onClose) of the Register modal
RegCloseTimer(t) ==
  /\ t \in openTabs
  /\ timers[t]["Register.close"] > 0
  /\ timers' = ClearedTimeout(timers, t, "Register.close")
  /\ CloseRegister(t)
  /\ net' = Unmount(net, t, "Register")
  /\ last' = Step("Register.closeTimer", t)
  /\ UNCHANGED <<server, openTabs, storage, storageEvts, nav, ctx, loginForm>>

\* the 1100 ms timer of a successful registration: setMounted(false), then
\* setTimeout(() => { onClose(); onOpenLogin() }, 120)
RegSuccessTimerDropped(t) ==
  /\ t \in openTabs
  /\ timers[t]["Register.success"] > 0
  /\ timers' = ClearedTimeout(timers, t, "Register.success")
  /\ last' = Step("Register.successTimer", t)
  /\ UNCHANGED <<server, openTabs, storage, storageEvts, nav, ctx, app, loginForm, regForm, net>>
RegSuccessTimer(t) ==
  /\ t \in openTabs
  /\ timers[t]["Register.success"] > 0
  /\ CanSetTimeout(t, "Register.closeThenLogin")
  /\ timers' = SetTimeout(ClearedTimeout(timers, t, "Register.success"),
                          t, "Register.closeThenLogin")
  /\ last' = Step("Register.successTimer", t)
  /\ UNCHANGED <<server, openTabs, storage, storageEvts, nav, ctx, app, loginForm, regForm, net>>

\* onClose(); onOpenLogin(): App closes the Register modal and sets
\* setTimeout(() => setIsLoginOpen(true), 140)
RegCloseThenLoginTimer(t) ==
  /\ t \in openTabs
  /\ timers[t]["Register.closeThenLogin"] > 0
  /\ CanSetTimeout(t, "App.openLogin")
  /\ timers' = SetTimeout(ClearedTimeout(timers, t, "Register.closeThenLogin"),
                          t, "App.openLogin")
  /\ CloseRegister(t)
  /\ net' = Unmount(net, t, "Register")
  /\ last' = Step("Register.closeThenLoginTimer", t)
  /\ UNCHANGED <<server, openTabs, storage, storageEvts, nav, ctx, loginForm>>

\* onClose(); onOpenRegister(): App closes the Login modal and sets
\* setTimeout(() => setIsRegisterOpen(true), 140)
LoginCloseThenRegisterTimer(t) ==
  /\ t \in openTabs
  /\ timers[t]["Login.closeThenRegister"] > 0
  /\ CanSetTimeout(t, "App.openRegister")
  /\ timers' = SetTimeout(ClearedTimeout(timers, t, "Login.closeThenRegister"),
                          t, "App.openRegister")
  /\ CloseLogin(t)
  /\ net' = Unmount(net, t, "Login")
  /\ last' = Step("Login.closeThenRegisterTimer", t)
  /\ UNCHANGED <<server, openTabs, storage, storageEvts, nav, ctx, regForm>>

\* App's setTimeout(() => setIsLoginOpen(true), 140)
AppOpenLoginTimer(t) ==
  /\ t \in openTabs
  /\ timers[t]["App.openLogin"] > 0
  /\ timers' = ClearedTimeout(timers, t, "App.openLogin")
  /\ app' = [app EXCEPT ![t].isLoginOpen = TRUE]
  /\ loginForm' = IF app[t].isLoginOpen THEN loginForm
                  ELSE [loginForm EXCEPT ![t] = InitLoginForm]
  /\ last' = Step("App.openLoginTimer", t)
  /\ UNCHANGED <<server, openTabs, storage, storageEvts, nav, ctx, regForm, net>>

\* App's setTimeout(() => setIsRegisterOpen(true), 140)
AppOpenRegisterTimer(t) ==
  /\ t \in openTabs
  /\ timers[t]["App.openRegister"] > 0
  /\ timers' = ClearedTimeout(timers, t, "App.openRegister")
  /\ app' = [app EXCEPT ![t].isRegisterOpen = TRUE]
  /\ regForm' = IF app[t].isRegisterOpen THEN regForm
                ELSE [regForm EXCEPT ![t] = InitRegForm]
  /\ last' = Step("App.openRegisterTimer", t)
  /\ UNCHANGED <<server, openTabs, storage, storageEvts, nav, ctx, loginForm, net>>

(***************************************************************************)
(* A page load: every component mounts on the storage as it is.  Navbar    *)
(* reads auth.user (its useState initialiser and its mount effect) before  *)
(* the mount effects of AuthProvider, its ancestor, write the storage.     *)
(***************************************************************************)
MountStorage(st) == CtxUserEffect(CtxTokenEffect(st, InitCtx(st).token), InitCtx(st).user)

Reload(t) ==
  /\ t \in openTabs
  /\ nav' = [nav EXCEPT ![t] = OnAuthChange(storage)]
  /\ ctx' = [ctx EXCEPT ![t] = InitCtx(storage)]
  /\ Write(t, MountStorage(storage))
  /\ app' = [app EXCEPT ![t] = InitApp]
  /\ loginForm' = [loginForm EXCEPT ![t] = InitLoginForm]
  /\ regForm' = [regForm EXCEPT ![t] = InitRegForm]
  /\ timers' = [timers EXCEPT ![t] = [k \in TimerKinds |-> 0]]
  /\ net' = net \ InFlight(t)
  /\ last' = Step("reload", t)
  /\ UNCHANGED <<server, openTabs>>

\* localStorage belongs to the origin: a script that is not the page's, or
\* the visitor in the developer tools of tab t, sets auth.user to a text
ForeignWrite(t, text) ==
  /\ t \in openTabs
  /\ storage.user # Some(text)
  /\ Write(t, SetItem(storage, "user", text))
  /\ last' = Step("foreign.setItem", t)
  /\ UNCHANGED <<server, openTabs, nav, ctx, app, loginForm, regForm, timers, net>>

(***************************************************************************)
(* What the network and the servers may answer.                            *)
(***************************************************************************)
\* the shapes that differ in what the page stores
CoreLoginAnswers(r) ==
  LET e == r.body.email IN
  { Response(200, JSONstringify([token |-> TokenOf(e), user |-> Profile(e)])),
    Response(200, JSONstringify([token |-> TokenOf(e)])),
    Response(200, JSONstringify([user |-> Profile(e)])),
    Response(401, JSONstringify([message |-> "Invalid credentials"])) }

\* and the shapes that differ in the error the page shows
LoginAnswers(r) ==
  CoreLoginAnswers(r) \cup
  { Response(200, PlainText("OK")),
    Response(403, JSONstringify([token |-> TokenOf(r.body.email),
                                 user |-> Profile(r.body.email)])),
    Response(500, PlainText("Internal Server Error")),
    Response(502, EmptyText),
    NetworkError }

\* the second shape is the variant of the server that signs the visitor in
RegisterAnswers(r) ==
  { Response(201, JSONstringify(Profile(r.body.email))),
    Response(201, JSONstringify([token |-> TokenOf(r.body.email),
                                 user |-> Profile(r.body.email)])),
    Response(409, JSONstringify([message |-> "Email already registered"])),
    Response(500, PlainText("Internal Server Error")),
    NetworkError }

Answers(r) ==
  IF r.path = "/api/auth/login" THEN LoginAnswers(r) ELSE RegisterAnswers(r)

(***************************************************************************)
(* The API server (backend/): server.js mounts the auth routes at          *)
(* /api/auth.  The controllers behind the routes and the User model are    *)
(* taken from the specification's sections 3, 4.1-4.3 and 6.               *)
(***************************************************************************)
\* the hosts the modals post to, and the databases a host's MONGO_URI may
\* name
Hosts == {RegisterHost, LoginHost}
Stores == {"db1", "db2"}
Deployments == {d \in [Hosts -> Stores] : d[RegisterHost] = "db1"}
OwnStores == [h \in Hosts |-> IF h = RegisterHost THEN "db1" ELSE "db2"]

\* db: the Credential Store of each host; users: the User records of each
\* store; jobs: the registrations between their lookup and their save;
\* outcome: how the last request ended; now: the clock, in days
InitServer(db) ==
  [db |-> db, users |-> [s \in Stores |-> {}], jobs |-> {}, outcome |-> "",
   now |-> 0]

\* Password Hasher: hash with a fresh salt, verify with the record's salt
Hash(plaintext, salt) == [alg |-> "bcrypt", salt |-> salt, digest |-> <<salt, plaintext>>]
Verify(plaintext, hashRecord) ==
  hashRecord.alg = "bcrypt" /\ hashRecord.digest = <<hashRecord.salt, plaintext>>

\* Token Issuer: a token is the text of its subject and its issued-at day,
\* signed with a key; JWT_EXPIRES_IN=7d
TokenTTL == 7
Secret == "k"
Keys == {Secret, "x"}
TokenClaims == [sub : {IdOf(e) : e \in Emails}, iat : 0..MaxClock]
Sign(claims, key) == "jwt." \o claims.sub \o "." \o ToString(claims.iat) \o "." \o key
Issue(user, now) == Sign([sub |-> user.id, iat |-> now], Secret)
ExpiresAt(claims) == claims.iat + TokenTTL
SignedBy(token, key) == {c \in TokenClaims : Sign(c, key) = token}

\* verify(token): the subject, or why the token is invalid
VerifyTokenLate(token, now) ==
  IF \A key \in Keys : SignedBy(token, key) = {} THEN "Malformed"
  ELSE IF SignedBy(token, Secret) = {} THEN "BadSignature"
  ELSE LET claims == CHOOSE c \in TokenClaims : Sign(c, Secret) = token
       IN IF now > ExpiresAt(claims) THEN "Expired" ELSE claims.sub
VerifyToken(token, now) ==
  IF \A key \in Keys : SignedBy(token, key) = {} THEN "Malformed"
  ELSE IF SignedBy(token, Secret) = {} THEN "BadSignature"
  ELSE LET claims == CHOOSE c \in TokenClaims : Sign(c, Secret) = token
       IN IF now < ExpiresAt(claims) THEN claims.sub ELSE "Expired"

WholeRecord(user) == user
PublicView(user) == [id |-> user.id, name |-> user.name, email |-> user.email]
Message(m) == JSONstringify([message |-> m])
ByEmail(users, email) == {u \in users : u.email = email}

\* the uniqueness constraint of the store on email
NoIndex(users, email) == FALSE
DuplicateKey(users, email) == ByEmail(users, email) # {}

\* Register, steps 1-3
RegisterValidation(body) ==
  IF body.name = "" \/ body.email = "" \/ body.password = "" THEN "missing fields"
  ELSE IF ~EmailRe(body.email) THEN "invalid email"
  ELSE IF Len(body.password) < 6 THEN "password too short"
  ELSE ""

\* Login, steps 1-2
LoginValidation(body) ==
  IF body.email = "" \/ body.password = "" THEN "missing credentials"
  ELSE IF ~EmailRe(body.email) THEN "invalid email"
  ELSE ""

\* Login, steps 3-4: the message of AuthError, for the Users found by email
AuthErrorLeaks(found) ==
  IF found = {} THEN "user not found" ELSE "invalid credentials"
AuthErrorMessage(found) == "invalid credentials"

\* the response reaches the code that awaits it
Deliver(r, res) ==
  IF r.from = "Login" THEN LoginResponse(r, res)
  ELSE IF r.from = "Register" THEN RegResponse(r, res)
  ELSE IF r.path = "/api/auth/login" THEN CtxLoginResponse(r, res)
  ELSE CtxRegisterResponse(r, res)

Ends(outcome) == server' = [server EXCEPT !.outcome = outcome]

\* Register, steps 1-4: validation and the lookup by email
ServerRegisterLookup(r) ==
  /\ r \in net /\ r.host \in DOMAIN server.db /\ r.path = "/api/auth/register"
  /\ r.id \notin server.jobs
  /\ LET users == server.users[server.db[r.host]]
         invalid == RegisterValidation(r.body)
     IN IF invalid # ""
          THEN Ends("ValidationError") /\ Deliver(r, Response(400, Message(invalid)))
        ELSE IF ByEmail(users, r.body.email) # {}
          THEN /\ Ends("ConflictError at lookup")
               /\ Deliver(r, Response(409, Message("email already registered")))
        ELSE /\ server' = [server EXCEPT !.jobs = @ \cup {r.id}, !.outcome = "looked up"]
             /\ last' = Step("Server.registerLookup", r.tab)
             /\ UNCHANGED <<openTabs, storage, storageEvts, nav, ctx, app,
                            loginForm, regForm, timers, net>>

\* Register, steps 5-7: hash, persist under the uniqueness constraint,
\* answer with the public view
ServerRegisterSave(r) ==
  /\ r \in net /\ r.id \in server.jobs
  /\ LET store == server.db[r.host]
         user == [id |-> IdOf(r.body.email), name |-> r.body.name,
                  email |-> r.body.email,
                  passwordHash |-> Hash(r.body.password, r.id)]
     IN IF DuplicateKey(server.users[store], user.email)
          THEN /\ server' = [server EXCEPT !.jobs = @ \ {r.id},
                                           !.outcome = "ConflictError at save"]
               /\ Deliver(r, Response(409, Message("email already registered")))
          ELSE /\ server' = [server EXCEPT !.jobs = @ \ {r.id},
                                           !.users[store] = @ \cup {user},
                                           !.outcome = "created"]
               /\ Deliver(r, Response(201, JSONstringify(PublicView(user))))

\* Login, steps 1-5
ServerLogin(r) ==
  /\ r \in net /\ r.host \in DOMAIN server.db /\ r.path = "/api/auth/login"
  /\ LET found == ByEmail(server.users[server.db[r.host]], r.body.email)
         invalid == LoginValidation(r.body)
     IN IF invalid # ""
          THEN Ends("ValidationError") /\ Deliver(r, Response(400, Message(invalid)))
        ELSE IF \A u \in found : ~Verify(r.body.password, u.passwordHash)
          THEN /\ Ends("AuthError")
               /\ Deliver(r, Response(401, Message(AuthErrorMessage(found))))
        ELSE LET user == CHOOSE u \in found : Verify(r.body.password, u.passwordHash)
             IN /\ Ends("signed in")
                /\ Deliver(r, Response(200, JSONstringify(
                                 [token |-> Issue(user, server.now), user |-> PublicView(user)])))

\* InternalError: the store is unavailable; nothing is written
ServerFailsAfterWrite(r) ==
  /\ r \in net /\ r.host \in DOMAIN server.db
  /\ LET store == server.db[r.host]
         user == [id |-> IdOf(r.body.email), name |-> r.body.name,
                  email |-> r.body.email,
                  passwordHash |-> Hash(r.body.password, r.id)]
     IN server' = [server EXCEPT !.jobs = @ \ {r.id},
                                 !.users[store] = IF r.id \in server.jobs
                                                    THEN @ \cup {user} ELSE @,
                                 !.outcome = "InternalError"]
  /\ Deliver(r, Response(500, Message("internal error")))
ServerFails(r) ==
  /\ r \in net /\ r.host \in DOMAIN server.db
  /\ server' = [server EXCEPT !.jobs = @ \ {r.id}, !.outcome = "InternalError"]
  /\ Deliver(r, Response(500, Message("internal error")))

\* a day passes
Tick ==
  /\ server.now < MaxClock
  /\ server' = [server EXCEPT !.now = @ + 1]
  /\ last' = Step("tick", 0)
  /\ UNCHANGED <<openTabs, storage, storageEvts, nav, ctx, app, loginForm,
                 regForm, timers, net>>

(***************************************************************************)
(* The initial state: the page just loaded in the open tabs, on an empty   *)
(* storage.                                                                *)
(***************************************************************************)
InitTabs(open) ==
  /\ openTabs = open
  /\ storage = EmptyStorage
  /\ storageEvts = [t \in Tabs |-> 0]
  /\ nav = [t \in Tabs |-> OnAuthChange(EmptyStorage)]
  /\ ctx = [t \in Tabs |-> InitCtx(EmptyStorage)]
  /\ app = [t \in Tabs |-> InitApp]
  /\ loginForm = [t \in Tabs |-> InitLoginForm]
  /\ regForm = [t \in Tabs |-> InitRegForm]
  /\ timers = [t \in Tabs |-> [k \in TimerKinds |-> 0]]
  /\ net = {}
  /\ last = Step("load", 0)

Init == InitTabs({1}) /\ server = InitServer(OwnStores)

\* the session cache and its writers and readers, in one tab: the Login modal
\* signs in as Ann, a consumer of AuthContext as Bob
Next ==
  \E t \in Tabs :
    \/ OpenLogin(t)
    \/ LoginChange(t, "email", "a@x.com")
    \/ LoginChange(t, "password", "secret1")
    \/ LoginSubmit(t)
    \/ \E r \in net : \E res \in CoreLoginAnswers(r) :
         LoginResponse(r, res) /\ UNCHANGED server
    \/ LoginEscape(t)
    \/ LoginDismiss(t)
    \/ LoginCloseTimer(t)
    \/ NavLogout(t)
    \/ CtxLogin(t, "b@x.com", "secret1")
    \/ \E r \in net : \E res \in CoreLoginAnswers(r) :
         CtxLoginResponse(r, res) /\ UNCHANGED server
    \/ CtxLogout(t)
    \/ Reload(t)

Spec == Init /\ [][Next]_vars

(***************************************************************************)
(* The two forms in one tab: the Login and Register modals with their      *)
(* timers, the Navbar's logout, and a consumer of AuthContext that         *)
(* registers.  Ann is the visitor; she uses the pointer, so the backdrop   *)
(* of an open modal (fixed inset-0 z-50) covers the buttons of the page,   *)
(* and she sends one request at a time.                                    *)
(***************************************************************************)
PageReachable(t) == ~app[t].isLoginOpen /\ ~app[t].isRegisterOpen
Idle(t) == InFlight(t) = {}

NextForms ==
  \E t \in Tabs :
    \/ PageReachable(t) /\ OpenLogin(t)
    \/ LoginChange(t, "email", "a@x.com")
    \/ LoginChange(t, "password", "secret1")
    \/ Idle(t) /\ LoginSubmit(t)
    \/ \E r \in net : \E res \in CoreLoginAnswers(r) :
         LoginResponse(r, res) /\ UNCHANGED server
    \/ LoginEscape(t)
    \/ LoginDismiss(t)
    \/ LoginCloseTimer(t)
    \/ PageReachable(t) /\ NavLogout(t)
    \/ PageReachable(t) /\ OpenRegister(t)
    \/ RegChange(t, "name", "Ann")
    \/ RegChange(t, "email", "a@x.com")
    \/ \E f \in {"password", "confirm"} : RegChange(t, f, "secret1")
    \/ Idle(t) /\ RegSubmit(t)
    \/ \E r \in net : \E res \in RegisterAnswers(r) :
         RegResponse(r, res) /\ UNCHANGED server
    \/ RegDismiss(t)
    \/ RegCloseTimer(t)
    \/ RegSuccessTimer(t)
    \/ RegCloseThenLoginTimer(t)
    \/ AppOpenLoginTimer(t)
    \/ Idle(t) /\ CtxRegister(t, [name |-> "Bob", email |-> "b@x.com", password |-> "secret2"])
    \/ \E r \in net : \E res \in RegisterAnswers(r) :
         CtxRegisterResponse(r, res) /\ UNCHANGED server

SpecForms == Init /\ [][NextForms]_vars

\* the session cache in two tabs of one browser: the visitor signs in and
\* out in the first tab, through the Login modal, the Navbar and AuthContext;
\* the second tab stays open and may sign out
InitTwoTabs == InitTabs(Tabs) /\ server = InitServer(OwnStores)

Typed(t) == loginForm[t].values.email # ""
Quiet == net = {}

NextTabs ==
  \/ \E t \in Tabs :
       \/ StorageEvent(t)
       \/ NavLogout(t)
  \/ \E t \in {1} :
       \/ Quiet /\ OpenLogin(t)
       \/ LoginChange(t, "email", "a@x.com")
       \/ Typed(t) /\ LoginChange(t, "password", "secret1")
       \/ LoginSubmit(t)
       \/ \E r \in net : LoginResponse(r, Response(200, JSONstringify(
              [token |-> TokenOf(r.body.email), user |-> Profile(r.body.email)])))
            /\ UNCHANGED server
       \/ LoginCloseTimer(t)
       \/ Quiet /\ CtxLogin(t, "b@x.com", "secret1")
       \/ \E r \in net : CtxLoginResponse(r, Response(200, JSONstringify(
              [token |-> TokenOf(r.body.email), user |-> Profile(r.body.email)])))
            /\ UNCHANGED server
       \/ CtxLogout(t)

SpecTabs == InitTwoTabs /\ [][NextTabs]_vars

\* the modals against the servers, in two tabs: Ann registers, then signs
\* in, filling each form from the top; the two hosts are deployed on one
\* database or on two
InitServers == InitTabs(Tabs) /\ \E db \in Deployments : server = InitServer(db)

NextServer ==
  \/ \E t \in Tabs :
       \/ OpenRegister(t) /\ ~app[t].isLoginOpen
       \/ RegChange(t, "name", "Ann")
       \/ regForm[t].values.name # "" /\ RegChange(t, "email", "a@x.com")
       \/ regForm[t].values.email # "" /\ RegChange(t, "password", "secret1")
       \/ regForm[t].values.password # "" /\ RegChange(t, "confirm", "secret1")
       \/ RegSubmit(t)
       \/ RegSuccessTimer(t)
       \/ RegCloseThenLoginTimer(t)
       \/ AppOpenLoginTimer(t)
       \/ LoginChange(t, "email", "a@x.com")
       \/ Typed(t) /\ LoginChange(t, "password", "secret1")
       \/ LoginSubmit(t)
       \/ LoginCloseTimer(t)
       \/ StorageEvent(t)
  \/ \E r \in net :
       \/ ServerRegisterLookup(r)
       \/ ServerRegisterSave(r)
       \/ ServerLogin(r)

SpecServer == InitServers /\ [][NextServer]_vars

\* what the visitor types into the modals, valid or not, and whatever the
\* network answers, in one tab with one request at a time
RegTyped == [name |-> {"Ann"}, email |-> {"a@x.com", "a@b"},
             password |-> {"secret1", "abc12"}, confirm |-> {"secret1", "abc12"}]
LoginTyped == [email |-> {"a@x.com", "a@b"}, password |-> {"secret1"},
               remember |-> {TRUE, FALSE}]

NextInputs ==
  \E t \in {1} :
    \/ PageReachable(t) /\ OpenRegister(t)
    \/ \E f \in DOMAIN RegTyped : \E v \in RegTyped[f] : RegChange(t, f, v)
    \/ Idle(t) /\ RegSubmit(t)
    \/ \E r \in net : \E res \in RegisterAnswers(r) :
         RegResponse(r, res) /\ UNCHANGED server
    \/ RegDismiss(t)
    \/ RegCloseTimer(t)
    \/ PageReachable(t) /\ OpenLogin(t)
    \/ \E f \in DOMAIN LoginTyped : \E v \in LoginTyped[f] : LoginChange(t, f, v)
    \/ Idle(t) /\ LoginSubmit(t)
    \/ \E r \in net : \E res \in LoginAnswers(r) :
         LoginResponse(r, res) /\ UNCHANGED server
    \/ LoginDismiss(t)
    \/ LoginCloseTimer(t)

SpecInputs == Init /\ [][NextInputs]_vars

\* two tabs whose storage is also written from outside the page: Ann signs
\* in through the Login modal of the first tab, either tab may sign out or
\* be reloaded, and auth.user is overwritten with a text that is not JSON
ForeignTexts == {PlainText("{oops"), PlainText("Ann")}

NextForeign ==
  \/ \E t \in Tabs :
       \/ StorageEvent(t)
       \/ NavLogout(t)
       \/ Quiet /\ Reload(t)
       \/ \E text \in ForeignTexts : ForeignWrite(t, text)
  \/ \E t \in {1} :
       \/ OpenLogin(t)
       \/ LoginChange(t, "email", "a@x.com")
       \/ Typed(t) /\ LoginChange(t, "password", "secret1")
       \/ Quiet /\ LoginSubmit(t)
       \/ \E r \in net : LoginResponse(r, Response(200, JSONstringify(
              [token |-> TokenOf(r.body.email), user |-> Profile(r.body.email)])))
            /\ UNCHANGED server
       \/ LoginCloseTimer(t)

SpecForeign == InitTwoTabs /\ [][NextForeign]_vars

\* the modals and their timers in one tab: the visitor opens, closes and
\* switches the modals and registers, one request at a time
NextModals ==
  \E t \in {1} :
    \/ PageReachable(t) /\ OpenRegister(t)
    \/ RegChange(t, "name", "Ann")
    \/ regForm[t].values.name # "" /\ RegChange(t, "email", "a@x.com")
    \/ regForm[t].values.email # "" /\ RegChange(t, "password", "secret1")
    \/ regForm[t].values.password # "" /\ RegChange(t, "confirm", "secret1")
    \/ Idle(t) /\ RegSubmit(t)
    \/ \E r \in net : \E res \in RegisterAnswers(r) :
         RegResponse(r, res) /\ UNCHANGED server
    \/ RegDismiss(t)
    \/ RegToLogin(t)
    \/ RegCloseTimer(t)
    \/ RegSuccessTimer(t)
    \/ RegCloseThenLoginTimer(t)
    \/ AppOpenLoginTimer(t)
    \/ PageReachable(t) /\ OpenLogin(t)
    \/ LoginEscape(t)
    \/ LoginDismiss(t)
    \/ LoginToRegister(t)
    \/ LoginCloseTimer(t)
    \/ LoginCloseThenRegisterTimer(t)
    \/ AppOpenRegisterTimer(t)

SpecModals == Init /\ [][NextModals]_vars

\* the browser runs a pending setTimeout callback when its delay is over
TimersFire ==
  \A t \in {1} :
    /\ WF_vars(RegCloseTimer(t))
    /\ WF_vars(RegSuccessTimer(t))
    /\ WF_vars(RegCloseThenLoginTimer(t))
    /\ WF_vars(AppOpenLoginTimer(t))
    /\ WF_vars(LoginCloseTimer(t))
    /\ WF_vars(LoginCloseThenRegisterTimer(t))
    /\ WF_vars(AppOpenRegisterTimer(t))

SpecModalsLive == SpecModals /\ TimersFire

\* a consumer of AuthContext against the server of the page's origin, in
\* one tab with one request at a time, while the days pass: AuthContext
\* sends what it is given, valid or not
ApiOnOrigin == [h \in {PageOrigin} |-> "db1"]
InitApi == InitTabs({1}) /\ server = InitServer(ApiOnOrigin)

RegPayloads ==
  {[name |-> "Ann", email |-> "a@x.com", password |-> "secret1"],
   [name |-> "", email |-> "a@b", password |-> "abc12"],
   [name |-> "Ann", email |-> "a@b", password |-> "abc12"],
   [name |-> "Ann", email |-> "a@x.com", password |-> "abc12"]}
Credentials ==
  {<<"a@x.com", "secret1">>, <<"a@x.com", "secret2">>, <<"b@x.com", "secret1">>,
   <<"", "secret1">>, <<"a@b", "secret1">>}

NextApi ==
  \/ \E t \in {1} :
       \/ \E payload \in RegPayloads : Idle(t) /\ CtxRegister(t, payload)
       \/ \E c \in Credentials : Idle(t) /\ CtxLogin(t, c[1], c[2])
       \/ CtxLogout(t)
       \/ NavLogout(t)
       \/ Idle(t) /\ Reload(t)
  \/ \E r \in net :
       \/ ServerRegisterLookup(r)
       \/ ServerRegisterSave(r)
       \/ ServerLogin(r)
       \/ ServerFails(r)
  \/ net = {} /\ Tick

SpecApi == InitApi /\ [][NextApi]_vars

(***************************************************************************)
(* The session cache: properties of Spec.                                  *)
(***************************************************************************)
\* C1: after any completed sequence of logins and logouts, storage holds
\* both auth.token and auth.user or neither of them.
C1_BothKeysOrNeither == (storage.token = None) <=> (storage.user = None)

\* C2: the Navbar renders the user view if and only if auth.token is in
\* storage.
C2_AuthenticatedIffToken ==
  \A t \in openTabs : ShowsUser(t) <=> storage.token # None

\* the last step saved or cleared the session cache
SavedOrCleared ==
  \/ last.op \in {"Navbar.handleLogout", "AuthContext.logout"}
  \/ last.op = "Login.handleResponse" /\ LoginError(last.res[1]) = ""
  \/ last.op = "AuthContext.loginResponse" /\ last.returned = "ok:true"

\* C3: every writer of the session cache dispatches "authChange" after it
\* saves or clears the cache.
C3_EveryWriterBroadcasts == SavedOrCleared => last.authChange

\* C4: the Navbar's user changes only in a step that dispatches "authChange"
\* in its tab, delivers a native storage event to it or loads the page; and
\* after the Login modal saved and dispatched, it is the stored auth.user.
C4_NavbarFollowsBroadcast ==
  [][\A t \in openTabs :
       /\ nav'[t] # nav[t] =>
            /\ last'.tab = t
            /\ last'.authChange \/ last'.op \in {"Navbar.onStorage", "reload"}
       /\ (last'.op = "Login.handleResponse" /\ last'.tab = t /\ last'.authChange) =>
            /\ nav'[t] # None
            /\ nav'[t] = ReadUser(storage')]_vars

\* the Login modal saved Ann's session over Bob's and the Navbar shows Ann
C4_Witness ==
  /\ last.op = "Login.handleResponse" /\ last.authChange
  /\ ctx[1].user = Some(Profile("b@x.com"))
  /\ nav[1] = Some(Profile("a@x.com"))
  /\ storage.user = Some(JSONstringify(Profile("a@x.com")))

\* C6: at most one request of a form is in flight at any time.
C6_OneRequestPerForm ==
  \A t \in openTabs : \A f \in {"Login", "Register"} :
    Cardinality({r \in net : r.tab = t /\ r.from = f}) <= 1

\* a login was answered with a token and no user
TokenOnly(res) ==
  /\ Ok(res) /\ ~ParseThrows(res.body)
  /\ Has(JSONparse(res.body), "token") /\ ~HasObj(JSONparse(res.body), "user")

\* C17: when a login is answered with a token and no user, through the Login
\* modal or through AuthContext, auth.user is stored as the JSON text of
\* {email: <the email of the request>}; and storage never holds auth.token
\* without auth.user.
C17_UserFallsBackToEmail ==
  [][/\ (last'.op \in {"Login.handleResponse", "AuthContext.loginResponse"}
           /\ TokenOnly(last'.res[1])) =>
          storage'.user = Some(JSONstringify([email |-> last'.req[1].body.email]))
     /\ storage'.token # None => storage'.user # None]_vars

\* the Login modal stored {email} for Ann after a response without a user
C17_Witness ==
  /\ last.op = "Login.handleResponse" /\ TokenOnly(last.res[1])
  /\ storage.token = Some("jwt-a")
  /\ storage.user = Some(JSONstringify([email |-> "a@x.com"]))


\* C23: in a step that dispatches "authChange", the storage the listeners
\* read is the storage the step leaves: with auth.token and auth.user both
\* written when the Login modal dispatches, and the Navbar showing that
\* user; with both removed when the Navbar's logout dispatches.
C23_DispatchAfterWrites ==
  last.authChange =>
    /\ last.seen = storage
    /\ last.op \in {"Login.handleResponse", "Navbar.handleLogout"}
    /\ last.op = "Login.handleResponse" =>
         /\ last.seen.token # None /\ last.seen.user # None
         /\ nav[last.tab] = ReadUser(last.seen)
    /\ last.op = "Navbar.handleLogout" =>
         /\ last.seen = EmptyStorage
         /\ nav[last.tab] = None

\* the Login modal dispatched after it wrote the token and, the response
\* having no user, the email as the user
C23_Witness ==
  /\ last.authChange /\ last.op = "Login.handleResponse"
  /\ last.seen = [token |-> Some("jwt-a"),
                  user |-> Some(JSONstringify(EmailOnly("a@x.com")))]
  /\ nav[last.tab] = Some(EmailOnly("a@x.com"))

\* C28: when no request is in flight, AuthContext's token and user are the
\* stored auth.token and auth.user, and isAuthenticated is true exactly when
\* auth.token is stored.
C28_ContextMirrorsCache ==
  net = {} =>
    \A t \in openTabs :
      /\ (IF Truthy(ctx[t].token) THEN Some(ctx[t].token) ELSE None) = storage.token
      /\ ctx[t].user = ReadUser(storage)
      /\ IsAuthenticated(t) <=> storage.token # None

\* C29: in AuthContext a user that is not null comes with a token that is
\* not null, and when login has returned ok:true a token is stored.
C29_UserImpliesToken ==
  /\ \A t \in openTabs : ctx[t].user # None => Truthy(ctx[t].token)
  /\ (last.op = "AuthContext.loginResponse" /\ last.returned = "ok:true") =>
       storage.token # None

(***************************************************************************)
(* The forms: properties of SpecForms.                                     *)
(***************************************************************************)
Ids(n) == {r.id : r \in n}

\* C7: closing a modal takes no request out of flight, and the response of a
\* request is applied whether or not its modal is still open: a login
\* response with a token saves the session and dispatches "authChange", a
\* successful registration response starts the redirect to sign in.
C7_ClosedModalStillCompletes ==
  [][/\ last'.op \in {"Login.escape", "Login.closeTimer", "Register.closeTimer",
                      "Register.closeThenLoginTimer"} => Ids(net') = Ids(net)
     /\ (last'.op = "Login.handleResponse" /\ LoginError(last'.res[1]) = "") =>
          /\ last'.req[1] \in net /\ last'.req[1] \notin net'
          /\ storage'.token = Some(JSONparse(last'.res[1].body).token)
          /\ storage'.user # None
          /\ last'.authChange /\ last'.seen = storage'
          /\ nav'[last'.tab] = ReadUser(storage')
     /\ (last'.op = "Register.handleResponse" /\ RegError(last'.res[1]) = "") =>
          /\ last'.req[1] \in net /\ last'.req[1] \notin net'
          /\ timers'[last'.tab]["Register.success"] =
               timers[last'.tab]["Register.success"] + 1]_vars

\* a login response saved the session after its modal was closed
C7_Witness ==
  /\ last.op = "Login.handleResponse" /\ ~last.req[1].live
  /\ ~app[1].isLoginOpen
  /\ storage.token = Some("jwt-a") /\ last.authChange

RegisterOps == {"Register.handleSubmit", "Register.handleResponse",
                "AuthContext.register", "AuthContext.registerResponse"}

\* C9: a registration step, through the Register modal or AuthContext,
\* leaves auth.token and auth.user (and what the Navbar and AuthContext hold
\* of them) as they were, whatever the server answers; the token appears in
\* storage only in a login's response step.
C9_RegistrationLeavesCache ==
  [][/\ last'.op \in RegisterOps =>
          /\ storage' = storage /\ nav' = nav
          /\ \A t \in Tabs : ctx'[t].token = ctx[t].token /\ ctx'[t].user = ctx[t].user
     /\ (storage.token = None /\ storage'.token # None) =>
          last'.op \in {"Login.handleResponse", "AuthContext.loginResponse"}]_vars

\* a successful registration whose response carried a token, while Ann was
\* signed out
C9_Witness ==
  /\ last.op = "Register.handleResponse" /\ RegError(last.res[1]) = ""
  /\ Has(JSONparse(last.res[1].body), "token")
  /\ storage = EmptyStorage

\* C24: the response of a Login request that was in flight when the Navbar
\* logged out, applied in the step after the logout, leaves the session
\* cache empty.
C24_LogoutOutlivesOldLogin ==
  [][(last.op = "Navbar.handleLogout" /\ last'.op = "Login.handleResponse") =>
       storage' = EmptyStorage]_vars

\* C25: when the response of a request, or the rejection of its fetch, has
\* been applied, the form that sent it (if it is still mounted) is not
\* loading and shows an error or has taken its success path (the Login
\* modal saved the session and set its close timer, the Register modal shows
\* its banner and set its redirect timer); AuthContext is not loading and
\* has returned ok:true or ok:false.
C25_SettledFormIsEnabled ==
  LET t == last.tab IN
  /\ (last.op = "Login.handleResponse" /\ last.req[1].live) =>
       /\ ~loginForm[t].loading
       /\ \/ loginForm[t].error # ""
          \/ storage.token # None /\ last.authChange /\ timers[t]["Login.close"] > 0
  /\ (last.op = "Register.handleResponse" /\ last.req[1].live) =>
       /\ ~regForm[t].loading
       /\ \/ regForm[t].error # ""
          \/ regForm[t].success = RegSuccessText /\ timers[t]["Register.success"] > 0
  /\ last.op \in {"AuthContext.loginResponse", "AuthContext.registerResponse"} =>
       /\ ~ctx[t].loading
       /\ last.returned \in {"ok:true", "ok:false"}

\* the Register modal shows the error of a rejected fetch and can be
\* submitted again
C25_Witness ==
  /\ last.op = "Register.handleResponse" /\ last.req[1].live
  /\ Rejected(last.res[1])
  /\ regForm[last.tab].error = "Failed to fetch" /\ RegCanSubmit(last.tab)

(***************************************************************************)
(* The redirect: properties of SpecModalsLive.                              *)
(***************************************************************************)
\* a successful registration response was just applied
RegSucceeded ==
  last.op = "Register.handleResponse" /\ RegError(last.res[1]) = ""

\* C26: after a successful registration response the Register modal is
\* eventually closed and the Login modal is eventually open, whatever the
\* visitor does with the modals in between.
C26_RedirectToSignIn ==
  /\ RegSucceeded ~> ~app[1].isRegisterOpen
  /\ RegSucceeded ~> app[1].isLoginOpen

\* the visitor has closed the Register modal while the redirect of a
\* successful registration is pending
C26_Witness ==
  /\ last.op = "Register.closeTimer"
  /\ timers[1]["Register.success"] > 0
  /\ ~app[1].isRegisterOpen /\ ~app[1].isLoginOpen

\* C27: at most one of the Login and Register modals is open, in every
\* state the clicks of the visitor and the timers of the modals and of App
\* lead to.
C27_OneModalAtATime ==
  \A t \in openTabs : ~(app[t].isLoginOpen /\ app[t].isRegisterOpen)

(***************************************************************************)
(* Two tabs: properties of SpecTabs.                                       *)
(***************************************************************************)
\* no request is in flight and no storage event is waiting to be delivered
Settled == net = {} /\ \A t \in openTabs : storageEvts[t] = 0

\* C5: once a login or logout has completed and its signals are delivered,
\* the Navbar of each of the two tabs displays the stored auth.user: no tab
\* is left showing a stale state.
C5_NoTabStaysStale ==
  Settled => \A t \in openTabs : nav[t] = ReadUser(storage)

(***************************************************************************)
(* The modals against the servers: properties of SpecServer.               *)
(***************************************************************************)
\* the credentials of a request are those of a User the Register form's
\* server holds
Registered(body) ==
  \E u \in server.users[server.db[RegisterHost]] :
    u.email = body.email /\ Verify(body.password, u.passwordHash)

\* C8: a Login form's request with the email and password of a User
\* registered through the Register form is answered 200 with a token and
\* that User's profile.
C8_RegisteredThenLogsIn ==
  (last.op = "Login.handleResponse" /\ Registered(last.req[1].body)) =>
    /\ last.res[1].status = 200
    /\ storage.token # None

\* C10: a Register request succeeds only if its store holds no User with its
\* email, and then it adds exactly one; a Register request whose email the
\* store holds when it is looked up or saved is answered 409 and adds
\* nothing; so a store never holds two Users with one email.
C10_AtMostOneRegistration ==
  [][/\ \A s \in Stores : \A e \in Emails :
          Cardinality(ByEmail(server'.users[s], e)) <= 1
     /\ last'.op = "Register.handleResponse" =>
          LET r == last'.req[1]
              res == last'.res[1]
              s == server.db[r.host]
          IN /\ res.status = 201 =>
                  /\ ByEmail(server.users[s], r.body.email) = {}
                  /\ Cardinality(ByEmail(server'.users[s], r.body.email)) = 1
             /\ ByEmail(server.users[s], r.body.email) # {} =>
                  /\ res.status = 409
                  /\ server'.users = server.users]_vars

\* of two registrations that both found the email free, the second to save
\* was refused by the store
C10_Witness ==
  /\ last.op = "Register.handleResponse" /\ last.res[1].status = 409
  /\ server.outcome = "ConflictError at save"
  /\ Cardinality(ByEmail(server.users["db1"], "a@x.com")) = 1

C14_OnlyValidatedRequests ==
  /\ \A r \in net :
       /\ r.from = "Register" =>
            /\ r.body.name # "" /\ r.body.email # "" /\ r.body.password # ""
            /\ EmailRe(r.body.email)
            /\ Len(r.body.password) >= 6
       /\ r.from = "Login" =>
            /\ r.body.email # "" /\ r.body.password # ""
            /\ EmailRe(r.body.email)
  /\ (last.op = "Register.handleSubmit" /\ last.req # None) =>
       regForm[last.tab].values.confirm = last.req[1].body.password

\* the Register form sent the values of Ann, which pass validate(), and the
\* request is in flight
C14_Witness ==
  /\ last.op = "Register.handleSubmit" /\ last.req # None
  /\ last.req[1] \in net
  /\ last.req[1].body = [name |-> "Ann", email |-> "a@x.com", password |-> "secret1"]

\* the last step applied a failed response to the form that is still open
LoginFailed(t) ==
  /\ last.op = "Login.handleResponse" /\ last.tab = t /\ last.req[1].live
  /\ LoginError(last.res[1]) # ""
RegFailed(t) ==
  /\ last.op = "Register.handleResponse" /\ last.tab = t /\ last.req[1].live
  /\ RegError(last.res[1]) # ""

\* C15: after a failed login or registration the form shows the error and
\* its password fields are empty.
C15_FailureClearsPasswords ==
  \A t \in openTabs :
    /\ LoginFailed(t) =>
         /\ loginForm[t].error = LoginError(last.res[1])
         /\ loginForm[t].values.password = ""
    /\ RegFailed(t) =>
         /\ regForm[t].error = RegError(last.res[1])
         /\ regForm[t].values.password = "" /\ regForm[t].values.confirm = ""

\* the response is no answer of the API: the fetch was rejected, or the body
\* is not JSON
TransportFailure(res) == Rejected(res) \/ ParseThrows(res.body)

\* the messages the servers declare
ServerMessages ==
  {"Invalid credentials", "invalid credentials", "Email already registered",
   "email already registered", "missing fields", "missing credentials",
   "invalid email", "password too short"}

\* C16: the error a form shows for a transport failure is not the text of
\* the response's body and is none of the servers' messages.
C16_TransportErrorIsGeneric ==
  \A t \in openTabs :
    /\ (LoginFailed(t) /\ TransportFailure(last.res[1])) =>
         /\ loginForm[t].error # Raw(last.res[1].body)
         /\ loginForm[t].error \notin ServerMessages
    /\ (RegFailed(t) /\ TransportFailure(last.res[1])) =>
         /\ regForm[t].error # Raw(last.res[1].body)
         /\ regForm[t].error \notin ServerMessages

\* C18: whatever the remember checkbox holds, the Login form's request is
\* the email and the password alone, posted to the one login URL, and a
\* response with a token leaves that token and the user in storage.
C18_RememberChangesNothing ==
  [][\A remember \in BOOLEAN :
       (\E t \in openTabs : loginForm[t].values.remember = remember) =>
         /\ (last'.op = "Login.handleSubmit" /\ last'.req # None) =>
              LET r == last'.req[1] IN
              /\ r.body = [email |-> loginForm[r.tab].values.email,
                           password |-> loginForm[r.tab].values.password]
              /\ r.host = LoginHost /\ r.path = "/api/auth/login"
         /\ (last'.op = "Login.handleResponse" /\ LoginError(last'.res[1]) = "") =>
              LET parsed == JSONparse(last'.res[1].body) IN
              /\ storage'.token = Some(parsed.token)
              /\ storage'.user = Some(JSONstringify(
                   IF HasObj(parsed, "user") THEN parsed.user
                   ELSE [email |-> last'.req[1].body.email]))]_vars

\* a login answered while remember is checked left Ann's session in storage
C18_Witness ==
  /\ last.op = "Login.handleResponse" /\ LoginError(last.res[1]) = ""
  /\ last.req[1].live /\ loginForm[1].values.remember
  /\ storage = [token |-> Some("jwt-a"),
                user |-> Some(JSONstringify(Profile("a@x.com")))]

\* a response with which a login has not succeeded: a rejected fetch, a
\* status that is not ok, a body that is not JSON, a body without a token
NotSignedIn(res) ==
  \/ Rejected(res)
  \/ ~Ok(res)
  \/ ParseThrows(res.body)
  \/ ~Has(JSONparse(res.body), "token")

\* C22: a submission the Login form refuses, and a response with which the
\* login has not succeeded, leave auth.token and auth.user as they were and
\* dispatch no "authChange": the Navbar's user stays as it was.
C22_FailedLoginWritesNothing ==
  [][(\/ last'.op = "Login.handleSubmit" /\ last'.req = None
      \/ last'.op = "Login.handleResponse" /\ NotSignedIn(last'.res[1])) =>
       /\ storage' = storage
       /\ ~last'.authChange
       /\ nav' = nav]_vars

\* a login was refused with status 403 while the session of an earlier
\* login was in storage
C22_Witness ==
  /\ last.op = "Login.handleResponse" /\ last.res[1].status = 403
  /\ storage.token # None /\ storage.user # None

(* ------------------------------------------------------------------ *)
(* properties of SpecApi                                               *)
(* ------------------------------------------------------------------ *)

\* the Users of the store that serves the page's origin
ApiUsers == server.users[server.db[PageOrigin]]

\* what a Login with an email that no User has is answered
UnknownEmailAnswer == Response(401, Message(AuthErrorMessage({})))

\* a Login just ended as AuthError
AuthErrorAnswered ==
  last.op = "AuthContext.loginResponse" /\ server.outcome = "AuthError"

ApiAnswers == {"AuthContext.registerResponse", "AuthContext.loginResponse"}
ApiFailed(l) == l.op \in ApiAnswers /\ l.res # None /\ ~Ok(l.res[1])

\* C12: a Register or a Login that is answered as failed (ValidationError,
\* ConflictError, AuthError, InternalError) leaves the Users of every store
\* as they were, keeps nothing pending for the request, and hands out no
\* token.
C12_FailureWritesNothing ==
  [][ApiFailed(last') =>
       /\ server'.users = server.users
       /\ server'.db = server.db
       /\ last'.req[1].id \notin server'.jobs
       /\ \/ Parsed(last'.res[1]) = None
          \/ ~Has(Parsed(last'.res[1])[1], "token")]_vars

\* a Register was answered ConflictError or InternalError while the store
\* held a User
C12_Witness ==
  /\ ApiFailed(last) /\ last.op = "AuthContext.registerResponse"
  /\ last.res[1].status \in {409, 500}
  /\ ApiUsers # {}

Logouts == {"Navbar.handleLogout", "AuthContext.logout"}

\* C19: a logout, the Navbar's or AuthContext's, leaves the session cache
\* without token and without user, sends no request and leaves the
\* servers' state as it was.
C19_LogoutIsClientSide ==
  [][last'.op \in Logouts =>
       /\ storage' = EmptyStorage
       /\ net' = net
       /\ server' = server]_vars

\* the Navbar logged out of a session whose token AuthContext holds and
\* whose User the server has
C19_Witness ==
  /\ last.op = "Navbar.handleLogout"
  /\ ctx[last.tab].token # NULL
  /\ ApiUsers # {}

\* the tokens the Token Issuer signs for the Users of the store on a day up
\* to now, the tokens issued at a login among them
Issuable == {[user |-> u, iat |-> d] : u \in ApiUsers, d \in 0..server.now}

\* the token AuthContext holds, if it is a string
HeldTokens == {ctx[t].token : t \in openTabs} \ {NULL, UNDEFINED}

\* C20: a token issued at login verifies as its subject on every day before
\* its expiresAt (issuedAt + TTL) and as Expired on every day from then on,
\* whatever happened since its login: logouts, later logins, failures.
C20_OnlyExpiryInvalidates ==
  /\ \A i \in Issuable :
       VerifyToken(Issue(i.user, i.iat), server.now) =
         IF server.now < i.iat + TokenTTL THEN i.user.id ELSE "Expired"
  /\ \A token \in HeldTokens : \E i \in Issuable : token = Issue(i.user, i.iat)

\* the token of a login is still held on the day of its expiresAt, after
\* the Navbar's logout, and verifies as Expired
C20_Witness ==
  /\ storage.token = None
  /\ \E token \in HeldTokens : \E i \in Issuable :
       /\ token = Issue(i.user, i.iat)
       /\ server.now = i.iat + TokenTTL
       /\ VerifyToken(token, server.now) = "Expired"

\* the fields of a User that hold its password
PasswordFields == {"password", "passwordHash", "hash", "salt", "digest"}

\* the values of an object's fields that hold a string
Values(o) == {o[f] : f \in DOMAIN o \ {"user"}}

\* a response body of the server: a JSON object
ApiBody(l) == JSONparse(l.res[1].body)

\* C21: no response of Register or Login, successful or failed, has a
\* password field or the request's password or a hash record among its
\* values; the body of a successful Register, and the user of a successful
\* Login, has exactly the fields id, name and email.
C21_NoPasswordInResponses ==
  (last.op \in ApiAnswers /\ last.res # None) =>
    LET body == ApiBody(last)
        ok == Ok(last.res[1])
        view == IF last.op = "AuthContext.loginResponse" THEN body.user ELSE body
    IN /\ ~ParseThrows(last.res[1].body)
       /\ DOMAIN body \cap PasswordFields = {}
       /\ last.req[1].body.password \notin Values(body)
       /\ ok => /\ DOMAIN view = {"id", "name", "email"}
                /\ last.req[1].body.password \notin Values(view)
       /\ (ok /\ last.op = "AuthContext.loginResponse") =>
            DOMAIN body = {"token", "user"}
       /\ ~ok => DOMAIN body = {"message"}

\* a Login was answered with the token and the view of the User whose
\* record holds a password hash
C21_Witness ==
  /\ last.op = "AuthContext.loginResponse" /\ Ok(last.res[1])
  /\ \E u \in ApiUsers :
       /\ "passwordHash" \in DOMAIN u
       /\ ApiBody(last).user = [id |-> u.id, name |-> u.name, email |-> u.email]

(***************************************************************************)
(* A stored user that is not JSON: properties of SpecForeign.              *)
(***************************************************************************)
\* auth.user is stored and JSON.parse throws on it
NotJSON(st) == st.user # None /\ ParseThrows(st.user[1])

\* C30: when auth.user is not JSON, the Navbar at mount and at a "storage"
\* or "authChange" notification sets its user to null and shows the
\* logged-out view, and AuthContext starts with a null user; a step that
\* dispatches "authChange" never leaves such a text for its listeners.
C30_UnparsableUserIsAbsent ==
  [][/\ (last'.op = "Navbar.onStorage" /\ NotJSON(storage)) =>
          nav'[last'.tab] = None
     /\ (last'.op = "reload" /\ NotJSON(storage)) =>
          /\ nav'[last'.tab] = None
          /\ ctx'[last'.tab].user = None
     /\ last'.authChange => ~NotJSON(last'.seen)]_vars

\* a tab heard that auth.user changed, found a text that is not JSON next
\* to Ann's token, and shows the logged-out view
C30_Witness ==
  /\ last.op = "Navbar.onStorage"
  /\ NotJSON(storage) /\ storage.token = Some("jwt-a")
  /\ nav[last.tab] = None

============================================================================
